---- MODULE Spec2Model ----
(***************************************************************************)
(* The mapping orchestrator of nat-api (src/index.js, class NatAPI).       *)
(*                                                                         *)
(* JavaScript runs one callback at a time, so an action is the code that   *)
(* runs from one suspension (await) to the next.  A public call occupies a *)
(* caller slot p; its local variables live in calls[p].  The gateway is    *)
(* the environment: it answers a pending NAT-PMP or UPnP request with      *)
(* success or failure, or lets the one-second NAT-PMP timer fire first.    *)
(***************************************************************************)
EXTENDS Integers, Sequences, FiniteSets, TLC

\* ---------------------------------------------------------------- bounds
NumProcs == 2
MaxCalls == 3
MaxOpen == 3
MaxPmpTimers == 2
MaxPosts == 3
MaxServices == 2

Procs == 1..NumProcs

\* The (publicPort, privatePort) pairs and protocols callers pass in ("null" is protocol
\* unspecified, i.e. UDP & TCP).
PortPairs == {<<2000, 3000>>}
Protocols == {"null", "TCP", "UDP"}

VARIABLES
  pmpClient,      \* this._pmpClient: "null", or its socket "open"/"closed"
  upnpClient,     \* this._upnpClient: "null", "open" or "destroyed"
  autoUpdate,     \* this.autoUpdate
  destroyed,      \* this._destroyed
  openPorts,      \* this._openPorts
  upnpIntervals,  \* keys of this._upnpIntervals
  pmpIntervals,   \* keys of this._pmpIntervals
  pmpTimeouts,    \* pending one-second timers, oldest first
  calls,          \* the frames of the public calls in progress
  started,        \* number of public calls made so far
  ret,            \* the call that returned in the last step, if any
  ttl,            \* this.ttl
  timers,         \* the interval timers that are running
  device          \* the UPnP gateway device and its run() in progress

vars == <<pmpClient, upnpClient, autoUpdate, destroyed, openPorts,
          upnpIntervals, pmpIntervals, pmpTimeouts, calls, started, ret,
          ttl, timers, device>>

\* ---------------------------------------------------------------- values
\* A number-valued option that is missing (opts.ttl, opts.publicPort).
undefined == -1

\* The arguments a caller passes, by their typeof; null is an object.
Num(n) == [type |-> "number", value |-> n]
Str(str) == [type |-> "string", text |-> str]
Undefined == [type |-> "undefined"]
Null == [type |-> "null"]
Obj(pub, priv, proto, lease) ==
  [type |-> "object", publicPort |-> pub, privatePort |-> priv,
   protocol |-> proto, ttl |-> lease]

typeof(v) == IF v.type = "null" THEN "object" ELSE v.type

\* (x) ? ... : ... and x || ... on a number-valued option
Truthy(n) == n # undefined /\ n # 0

Max(a, b) == IF a >= b THEN a ELSE b

\* constructor: TTL is 2 hours (min 20 min); the mapping is refreshed 10
\* minutes before the end of its lifetime.
DefaultTtl == 7200
MinTtl == 1200
RenewMargin == 600

constructor_ttl(optsTtl) ==
  IF Truthy(optsTtl) THEN Max(optsTtl, MinTtl) ELSE DefaultTtl

_timeout == (ttl - RenewMargin) * 1000

\* ------------------------------------------------------------ data helpers
Key(pub, priv, proto) ==
  [publicPort |-> pub, privatePort |-> priv, protocol |-> proto]

KeyOf(o) == Key(o.publicPort, o.privatePort, o.protocol)

\* opts.publicPort + ':' + opts.privatePort + '-' + opts.protocol
IntervalKey(opts) == <<opts.publicPort, opts.privatePort, opts.protocol>>

\* unordered-array-remove: the last element takes the place of the removed
\* one; an index outside the array removes nothing.
arrayRemove(arr, i) ==
  IF i > Len(arr) \/ i < 1
    THEN arr
    ELSE LET last == arr[Len(arr)]
             rest == SubSeq(arr, 1, Len(arr) - 1)
         IN IF i <= Len(rest) THEN [rest EXCEPT ![i] = last] ELSE rest

\* The predicate of the findIndex calls of map and unmap: key equality, an
\* unspecified protocol matches either.
Matches(o, opts) ==
  /\ o.publicPort = opts.publicPort
  /\ o.privatePort = opts.privatePort
  /\ (o.protocol = opts.protocol \/ opts.protocol = "null")

\* Array.prototype.findIndex with that predicate, 1-based; 0 when nothing is
\* found (JavaScript's -1).
findIndex(arr, opts) ==
  IF \E i \in 1..Len(arr) : Matches(arr[i], opts)
    THEN CHOOSE i \in 1..Len(arr) :
           Matches(arr[i], opts) /\ \A j \in 1..(i - 1) : ~Matches(arr[j], opts)
    ELSE 0

\* setInterval(() => this._upnpMap(opts), this._timeout) and its NAT-PMP
\* twin: a running timer with the opts its callback closes over.  current
\* says that the timer table of its protocol holds its handle under the key
\* of opts; storing a new handle under a key leaves the timer of the handle
\* it replaces running.
Timer(via, c, period) ==
  [via |-> via, publicPort |-> c.publicPort, privatePort |-> c.privatePort,
   protocol |-> c.cur, ttl |-> c.ttl, period |-> period, current |-> TRUE]

Holds(tm, via, c) ==
  /\ tm.via = via /\ tm.current
  /\ IntervalKey(tm) = IntervalKey([publicPort |-> c.publicPort,
                                    privatePort |-> c.privatePort,
                                    protocol |-> c.cur])

setInterval(running, via, c, period) ==
  {IF Holds(tm, via, c) THEN [tm EXCEPT !.current = FALSE] ELSE tm :
     tm \in running} \cup {Timer(via, c, period)}

\* clearInterval(table[key]); delete table[key]
clearInterval(running, via, c) ==
  {tm \in running : ~Holds(tm, via, c)}

\* The protocol clients (lib/pmp, lib/upnp) as the orchestrator sees them:
\* a NAT-PMP client is constructed with an open socket and close() closes
\* it (socket == null); destroy() closes the UPnP client.
NatPMP_new == "open"
NatPMP_close(client) == IF client = "null" THEN client ELSE "closed"
NatUPNP_new == "open"
NatUPNP_destroy(client) == IF client = "null" THEN client ELSE "destroyed"

\* ------------------------------------------------- UPnP device (Device.run)
\* The device behind the UPnP client, created with the permanentFallback
\* option of new NatUPNP({ permanentFallback }).  posts is the sequence of
\* argument lists POSTed to the control URL by the run() in progress.
\* this.services of the Device constructor
services ==
  <<"WANIPConnection:1", "WANIPConnection:2", "WANPPPConnection:1">>

\* A <service> element of a device description, and the device
\* descriptions a gateway may serve: a root device with its own services
\* and embedded devices with theirs.  An element that is missing reads as
\* the empty string.
Service(serviceType, controlURL) ==
  [serviceType |-> serviceType, controlURL |-> controlURL,
   SCPDURL |-> "/scpd.xml"]

NoService == [serviceType |-> "none", controlURL |-> "", SCPDURL |-> ""]

Services ==
  {Service(t, "/ctl") :
     t \in {services[i] : i \in 1..Len(services)} \cup {"Layer3Forwarding:1"}}
  \cup {Service("WANIPConnection:1", "")}

Lists(S, n) == UNION {[1..m -> S] : m \in 0..n}

EmbeddedDevices ==
  {[serviceList |-> sl, deviceList |-> <<>>] :
     sl \in Lists(Services, MaxServices)}

Descriptions ==
  {[serviceList |-> sl, deviceList |-> dl] :
     sl \in Lists(Services, 1), dl \in Lists(EmbeddedDevices, 1)}

NoDescription == [serviceList |-> <<>>, deviceList |-> <<>>]

\* traverseDevices of _parseDescription: the services of the embedded
\* devices are pushed before the device's own.
RECURSIVE traverseDevices(_)
RECURSIVE forEach(_)
forEach(deviceList) ==
  IF deviceList = <<>> THEN <<>>
  ELSE traverseDevices(Head(deviceList)) \o forEach(Tail(deviceList))

traverseDevices(dev) == forEach(dev.deviceList) \o dev.serviceList

_parseDescription(info) == traverseDevices(info)

\* types.indexOf(serviceType) !== -1
Accepted(svc) == \E i \in 1..Len(services) : services[i] = svc.serviceType

\* _getService: the first accepted service of the description, which
\* must have a control URL and an SCPD URL.
_getService(info) ==
  LET s == SelectSeq(_parseDescription(info), Accepted)
  IN IF Len(s) = 0 \/ s[1].controlURL = "" \/ s[1].SCPDURL = ""
       THEN NoService
       ELSE s[1]

Device_new(permanentFallback) ==
  [permanentFallback |-> permanentFallback, pc |-> "idle",
   action |-> "none", args |-> <<>>, posts |-> <<>>,
   outcome |-> "none", error |-> "null",
   info |-> NoDescription, service |-> NoService]

\* run(action, args) up to await this._getService(this.services)
run(d, action, args) ==
  [d EXCEPT !.pc = "service", !.action = action, !.args = args]

DeviceThrow(d, msg) ==
  [d EXCEPT !.pc = "idle", !.outcome = "raised", !.error = msg]

\* run after _getService: POST the envelope built from args
fetch(d, found) ==
  IF found
    THEN [d EXCEPT !.pc = "post", !.posts = Append(@, d.args)]
    ELSE DeviceThrow(d, "Service not found")

\* The messages of the fault codes of the switch
FaultCodes == {606, 714, 715, 716, 718, 724, 725, 726, 727, 728, 729, 732}

FaultMessage(errorCode) ==
  CASE errorCode = 606 -> "the sender was not authorized"
    [] errorCode = 714 -> "The specified value does not exist in the array."
    [] errorCode = 715 -> "The source IP address cannot be wild-carded."
    [] errorCode = 716 -> "The external port cannot be wild-carded."
    [] errorCode = 718 -> "The port mapping entry specified conflicts"
    [] errorCode = 724 -> "Internal and External port values MUST be the same."
    [] errorCode = 726 -> "RemoteHost must be a wildcard"
    [] errorCode = 727 -> "ExternalPort MUST be a wildcard"
    [] errorCode = 728 -> "There are not enough free ports available"
    [] errorCode = 729 -> "conflict with other mechanisms"
    [] errorCode = 732 -> "The internal port cannot be wild-carded."
    [] OTHER -> "Request failed, status code: 500"

\* args[args.length - 1] = ['NewLeaseDuration', 0]
PermanentLease(args) ==
  [args EXCEPT ![Len(args)] = <<"NewLeaseDuration", 0>>]

\* run after the response was read and parsed.  faultString is 'UPnPError'
\* or something else; errorCode is the code of a UPnPError.
respond(d, status, faultString, errorCode) ==
  IF status = 500
    THEN IF faultString = "upnperror"
           THEN IF errorCode = 725
                  THEN run(d, d.action, PermanentLease(d.args))
                  ELSE DeviceThrow(d, FaultMessage(errorCode))
           ELSE DeviceThrow(d, "Request failed, status code: 500")
    ELSE IF status # 200
      THEN DeviceThrow(d, "Request failed")
      ELSE [d EXCEPT !.pc = "idle", !.outcome = "Body"]

\* ------------------------------------------------------------------ frames
NoCall ==
  [op |-> "none", pc |-> "idle", kind |-> "none",
   publicPort |-> 0, privatePort |-> 0, protocol |-> "null", cur |-> "null",
   ttl |-> undefined,
   resp |-> <<FALSE, "null">>, tried |-> <<>>, snap |-> <<>>,
   attempted |-> {}, failed |-> {}, entryDestroyed |-> FALSE,
   alone |-> FALSE, pre |-> <<>>, preUpnp |-> {}, prePmp |-> {}]

NoRet ==
  [op |-> "none", outcome |-> "none", error |-> "null", call |-> NoCall]

\* new NatAPI({ ttl, autoUpdate, enablePMP, enableUPNP,
\*              upnpPermanentFallback })
Constructed(optsTtl, upnpPermanentFallback) ==
  /\ pmpClient \in {"null", NatPMP_new}
  /\ upnpClient \in {"null", NatUPNP_new}
  /\ autoUpdate \in BOOLEAN
  /\ destroyed = FALSE
  /\ openPorts = <<>>
  /\ upnpIntervals = {}
  /\ pmpIntervals = {}
  /\ pmpTimeouts = <<>>
  /\ calls = [p \in Procs |-> NoCall]
  /\ started = 0
  /\ ret = NoRet
  /\ ttl = constructor_ttl(optsTtl)
  /\ timers = {}
  /\ device = Device_new(upnpPermanentFallback)

\* The client of the README examples: no ttl option, no permanent-lease
\* fallback, autoUpdate left at its default (opts.autoUpdate !== false).
Init == Constructed(undefined, FALSE) /\ autoUpdate

\* ------------------------------------------------- one run-to-suspension
\* The state a callback of caller p works on: its frame c and the fields of
\* the client object.  done/outcome/error describe how the public call
\* ended, if it ended in this step.
St(p) ==
  [p |-> p, c |-> calls[p],
   pmpClient |-> pmpClient, upnpClient |-> upnpClient,
   destroyed |-> destroyed, openPorts |-> openPorts,
   upnpIntervals |-> upnpIntervals, pmpIntervals |-> pmpIntervals,
   pmpTimeouts |-> pmpTimeouts, timers |-> timers,
   done |-> FALSE, outcome |-> "none", error |-> "null"]

\* throw new Error(msg) reaching the caller of the public operation
Throw(s, msg) ==
  [s EXCEPT !.done = TRUE, !.outcome = "raised", !.error = msg]

\* return val from the public operation
Return(s, val) ==
  [s EXCEPT !.done = TRUE, !.outcome = val,
            !.error = IF val = "false" THEN s.c.resp[2] ELSE "null"]

\* _map / _unmap resolve to [ok, error]; the caller resumes after its await
Resp(s, ok, err) ==
  [s EXCEPT !.c.resp = <<ok, err>>, !.c.pc = "ret"]

Opts(c) == Key(c.publicPort, c.privatePort, c.cur)

\* A request as it was sent: socket is the state of the NAT-PMP socket
\* (this._pmpClient) at that moment.
Attempt(s, via) ==
  [publicPort |-> s.c.publicPort, privatePort |-> s.c.privatePort,
   protocol |-> s.c.cur, ttl |-> s.c.ttl, via |-> via,
   socket |-> s.pmpClient, result |-> "pending"]

Settle(tried, result) ==
  [tried EXCEPT ![Len(tried)] = [@ EXCEPT !.result = result]]

\* this._upnpClient.portMapping / portUnmapping / externalIp: the request
\* is on the wire and the callback suspends.
SendUpnp(s) ==
  [s EXCEPT !.c.tried = Append(@, Attempt(s, "upnp")),
            !.c.attempted = @ \cup {Opts(s.c)},
            !.c.pc = "upnp"]

\* _pmpMap and _pmpUnmap up to their await: reconnect after a timeout or
\* an error, start the one-second timer, send the request.
connect(s) ==
  [s EXCEPT !.pmpClient = IF @ = "closed" THEN NatPMP_new ELSE @]

SendPmp(s) ==
  [s EXCEPT !.pmpClient = connect(s).pmpClient,
            !.pmpTimeouts = Append(@, s.p),
            !.c.tried = Append(@, Attempt(connect(s), "pmp")),
            !.c.attempted = @ \cup {Opts(s.c)},
            !.c.pc = "pmp"]

\* _pmpIp up to its await: the timer and the request, no reconnect.
SendPmpIp(s) ==
  [s EXCEPT !.pmpTimeouts = Append(@, s.p),
            !.c.tried = Append(@, Attempt(s, "pmp")),
            !.c.pc = "pmp"]

\* _upnpMap / _upnpUnmap as called from _map / _unmap, and the end of the
\* fallback chain.  Their own lifecycle check throws inside the try of
\* _map / _unmap, which turns it into [false, error].
ExhaustionError == "no protocols succeeded"
LifecycleError == "client is destroyed"

TryUpnp_never(s) == Resp(s, FALSE, ExhaustionError)

TryUpnp(s) ==
  IF s.upnpClient # "null"
    THEN IF s.destroyed THEN Resp(s, FALSE, LifecycleError) ELSE SendUpnp(s)
    ELSE Resp(s, FALSE, ExhaustionError)

\* _map and _unmap up to their first await.  The lifecycle check is
\* outside the try, so it propagates to the caller.
TryPmp(s) ==
  IF s.pmpClient # "null"
    THEN IF s.destroyed THEN Resp(s, FALSE, LifecycleError) ELSE SendPmp(s)
    ELSE TryUpnp(s)

_map(s) ==
  IF s.destroyed THEN Throw(s, LifecycleError) ELSE TryPmp(s)

_unmap(s) ==
  IF s.destroyed THEN Throw(s, LifecycleError) ELSE TryPmp(s)

\* --------------------------------------------------- after a NAT-PMP await
\* _pmpMap after Promise.race: on a reply schedule the renewal; on an
\* error or the timeout close the socket, and _map falls through to UPnP.
_pmpMap(s, result) ==
  IF result = "ok"
    THEN Resp([s EXCEPT
                 !.pmpIntervals =
                   IF autoUpdate THEN @ \cup {IntervalKey(Opts(s.c))} ELSE @,
                 !.timers =
                   IF autoUpdate THEN setInterval(@, "pmp", s.c, _timeout)
                   ELSE @],
              TRUE, "null")
    ELSE TryUpnp([s EXCEPT !.pmpClient = NatPMP_close(@)])

_pmpUnmap_noFallback(s, result) ==
  IF result = "ok"
    THEN Resp([s EXCEPT !.pmpIntervals = @ \ {IntervalKey(Opts(s.c))},
                        !.timers = clearInterval(@, "pmp", s.c)],
              TRUE, "null")
    ELSE Resp([s EXCEPT !.pmpClient = NatPMP_close(@)],
              FALSE, ExhaustionError)

\* _pmpUnmap after Promise.race: on a reply clear the renewal of the key.
_pmpUnmap(s, result) ==
  IF result = "ok"
    THEN Resp([s EXCEPT !.pmpIntervals = @ \ {IntervalKey(Opts(s.c))},
                        !.timers = clearInterval(@, "pmp", s.c)],
              TRUE, "null")
    ELSE TryUpnp([s EXCEPT !.pmpClient = NatPMP_close(@)])

\* _upnpIp as called from externalIp, and externalIp's final return ''.
\* A lifecycle error of _upnpIp is swallowed by the catch of externalIp.
IpTryUpnp(s) ==
  IF s.upnpClient # "null" /\ ~s.destroyed
    THEN SendUpnp(s)
    ELSE Return(s, "")

\* _pmpIp after Promise.race, then externalIp: an address is returned, any
\* failure falls through to UPnP.
_pmpIp_noFallback(s, result) ==
  IF result = "ok" THEN Return(s, "ip") ELSE Return(s, "")

_pmpIp(s, result) ==
  IF result = "ok" THEN Return(s, "ip") ELSE IpTryUpnp(s)

PmpSettled(s, result) ==
  LET t == [s EXCEPT !.c.tried = Settle(@, result)]
  IN CASE s.c.kind = "map" -> _pmpMap(t, result)
       [] s.c.kind = "unmap" -> _pmpUnmap(t, result)
       [] OTHER -> _pmpIp(t, result)

\* ------------------------------------------------------ after a UPnP await
\* _upnpMap after portMapping settled, then the end of _map.
_upnpMap_rethrows(s, result) ==
  IF result = "ok"
    THEN Resp([s EXCEPT !.upnpIntervals =
                 IF autoUpdate THEN @ \cup {IntervalKey(Opts(s.c))} ELSE @],
              TRUE, "null")
    ELSE Throw(s, "upnp fault")

_upnpMap(s, result) ==
  IF result = "ok"
    THEN Resp([s EXCEPT
                 !.upnpIntervals =
                   IF autoUpdate THEN @ \cup {IntervalKey(Opts(s.c))} ELSE @,
                 !.timers =
                   IF autoUpdate THEN setInterval(@, "upnp", s.c, _timeout)
                   ELSE @],
              TRUE, "null")
    ELSE Resp(s, FALSE, ExhaustionError)

\* _upnpUnmap after portUnmapping settled, then the end of _unmap.
_upnpUnmap(s, result) ==
  IF result = "ok"
    THEN Resp([s EXCEPT !.upnpIntervals = @ \ {IntervalKey(Opts(s.c))},
                        !.timers = clearInterval(@, "upnp", s.c)],
              TRUE, "null")
    ELSE Resp(s, FALSE, ExhaustionError)

\* _upnpIp after externalIp settled, then the end of externalIp.
_upnpIp(s, result) ==
  IF result = "ok" THEN Return(s, "ip") ELSE Return(s, "")

UpnpSettled(s, result) ==
  LET t == [s EXCEPT !.c.tried = Settle(@, result)]
  IN CASE s.c.kind = "map" -> _upnpMap(t, result)
       [] s.c.kind = "unmap" -> _upnpUnmap(t, result)
       [] OTHER -> _upnpIp(t, result)

\* ------------------------------------------------------ public operations
\* String.prototype.toUpperCase on the protocol strings callers pass.
toUpperCase(str) ==
  CASE str = "tcp" -> "TCP"
    [] str = "udp" -> "UDP"
    [] OTHER -> str

\* _validateInput: the shapes (object), (number, number) and (number), the
\* protocol check, and the fallbacks.  A falsy protocol becomes null; null
\* as the first argument fails on the read of opts.protocol.
_validateInput(publicPort, privatePort) ==
  LET shape ==
        CASE typeof(publicPort) = "object" -> publicPort
          [] typeof(publicPort) = "number" /\ typeof(privatePort) = "number" ->
               Obj(publicPort.value, privatePort.value, "null", undefined)
          [] typeof(publicPort) = "number" ->
               Obj(publicPort.value, publicPort.value, "null", undefined)
          [] OTHER -> Undefined
      none == [publicPort |-> undefined, privatePort |-> undefined,
               protocol |-> "null", ttl |-> undefined]
  IN IF shape.type = "undefined"
       THEN [error |-> "port was not specified", opts |-> none]
     ELSE IF shape.type = "null"
       THEN [error |-> "TypeError", opts |-> none]
     ELSE IF shape.protocol \notin {"null", ""}
             /\ toUpperCase(shape.protocol) \notin {"UDP", "TCP"}
       THEN [error |-> "protocol is invalid", opts |-> none]
     ELSE [error |-> "null",
           opts |-> [publicPort |-> shape.publicPort,
                     privatePort |-> shape.privatePort,
                     protocol |-> IF shape.protocol = "" THEN "null"
                                  ELSE shape.protocol,
                     ttl |-> IF Truthy(shape.ttl) THEN shape.ttl ELSE ttl]]

\* An element of this._openPorts.  ref is the caller whose frame still
\* holds a reference to the object (newOpts, newOptsUDP), 0 when none does:
\* it is what indexOf(newOpts) compares.
Entry(opts, ref) ==
  [publicPort |-> opts.publicPort, privatePort |-> opts.privatePort,
   protocol |-> opts.protocol, ref |-> ref]

push(arr, o) == Append(arr, o)

indexOf(arr, ref) ==
  IF \E i \in 1..Len(arr) : arr[i].ref = ref
    THEN CHOOSE i \in 1..Len(arr) :
           arr[i].ref = ref /\ \A j \in 1..(i - 1) : arr[j].ref # ref
    ELSE 0

Frame(s, op, kind, opts, cur) ==
  [s.c EXCEPT !.op = op, !.kind = kind, !.tried = <<>>,
              !.publicPort = opts.publicPort, !.privatePort = opts.privatePort,
              !.protocol = opts.protocol, !.cur = cur]

\* map up to its first await
map(s, publicPort, privatePort) ==
  LET v == _validateInput(publicPort, privatePort)
      cur == IF v.opts.protocol # "null" THEN v.opts.protocol ELSE "UDP"
      newOpts == Entry(Key(v.opts.publicPort, v.opts.privatePort, cur), s.p)
  IN IF s.destroyed THEN Throw(s, LifecycleError)
     ELSE IF v.error # "null" THEN Throw(s, v.error)
     ELSE _map([s EXCEPT
            !.c = [Frame(s, "map", "map", v.opts, cur) EXCEPT
                     !.ttl = v.opts.ttl],
            !.openPorts = push(@, newOpts)])

\* map, lines 77-80 and 108: after await this._map(opts), protocol given
mapSingle_keepsEntry(s) ==
  IF ~s.c.resp[1] THEN Return(s, "false") ELSE Return(s, "true")

mapSingle(s) ==
  IF ~s.c.resp[1]
    THEN Return([s EXCEPT !.openPorts = arrayRemove(@, indexOf(@, s.p))],
                "false")
    ELSE Return(s, "true")

\* map, lines 89-98: after await this._map(newOptsUDP); on success push
\* newOptsTCP and call _map for it (newOptsUDP is not referenced again)
mapUDP_noPush(s) ==
  IF ~s.c.resp[1]
    THEN Return([s EXCEPT !.openPorts = arrayRemove(@, indexOf(@, s.p))],
                "false")
    ELSE _map([s EXCEPT !.c.cur = "TCP",
                        !.openPorts = [i \in 1..Len(@) |->
                           IF @[i].ref = s.p
                             THEN [@[i] EXCEPT !.ref = 0] ELSE @[i]]])

mapUDP(s) ==
  IF ~s.c.resp[1]
    THEN Return([s EXCEPT !.openPorts = arrayRemove(@, indexOf(@, s.p))],
                "false")
    ELSE _map([s EXCEPT
           !.c.cur = "TCP",
           !.openPorts =
              push([i \in 1..Len(@) |->
                      IF @[i].ref = s.p
                        THEN [@[i] EXCEPT !.ref = 0] ELSE @[i]],
                   Entry(Key(s.c.publicPort, s.c.privatePort, "TCP"), 0))])

\* map, lines 99-108: after await this._map(newOptsTCP)
mapTCP_removesAnyProtocol(s) ==
  LET pair == Key(s.c.publicPort, s.c.privatePort, "null")
  IN IF ~s.c.resp[1]
       THEN Return([s EXCEPT !.openPorts =
                      arrayRemove(@, findIndex(@, pair))], "false")
       ELSE Return(s, "true")

mapTCP(s) ==
  LET newOptsTCP == Key(s.c.publicPort, s.c.privatePort, "TCP")
  IN IF ~s.c.resp[1]
       THEN Return([s EXCEPT !.openPorts =
                      arrayRemove(@, findIndex(@, newOptsTCP))], "false")
       ELSE Return(s, "true")

\* map after await this._map(...)
mapResume(s) ==
  IF s.c.protocol # "null" THEN mapSingle(s)
  ELSE IF s.c.cur = "UDP" THEN mapUDP(s)
  ELSE mapTCP(s)

\* unmap up to its first await; opts is what the caller passed
unmapOpts_keepsEntry(s, op, opts) ==
  LET cur == IF opts.protocol # "null" THEN opts.protocol ELSE "UDP"
  IN _unmap([s EXCEPT !.c = Frame(s, op, "unmap", opts, cur)])

unmapOpts(s, op, opts) ==
  LET cur == IF opts.protocol # "null" THEN opts.protocol ELSE "UDP"
  IN _unmap([s EXCEPT
       !.c = Frame(s, op, "unmap", opts, cur),
       !.openPorts = arrayRemove(@, findIndex(@, opts))])

unmap(s, publicPort, privatePort) ==
  LET v == _validateInput(publicPort, privatePort)
  IN IF s.destroyed THEN Throw(s, LifecycleError)
     ELSE IF v.error # "null" THEN Throw(s, v.error)
     ELSE unmapOpts(s, "unmap", v.opts)

\* unmap after await this._unmap(...).  Its value is the return value of
\* unmap, or a lifecycle error raised by the second _unmap.
unmapResume(s) ==
  LET ok == s.c.resp[1]
  IN IF s.c.protocol # "null"
       THEN Return(s, IF ok THEN "true" ELSE "false")
     ELSE IF s.c.cur = "UDP"
       THEN IF ~ok THEN Return(s, "false")
                   ELSE _unmap([s EXCEPT !.c.cur = "TCP"])
     ELSE Return(s, IF ok THEN "true" ELSE "false")

\* externalIp up to its first await
externalIp_unchecked(s) ==
  LET t == [s EXCEPT !.c.op = "externalIp", !.c.kind = "ip"]
  IN IF s.pmpClient # "null" THEN SendPmpIp(t) ELSE IpTryUpnp(t)

externalIp(s) ==
  LET t == [s EXCEPT !.c.op = "externalIp", !.c.kind = "ip"]
  IN IF s.destroyed THEN Throw(s, LifecycleError)
     ELSE IF s.pmpClient # "null" THEN SendPmpIp(t)
     ELSE IpTryUpnp(t)

\* destroy: the body of the for loop.  unmap(openPort) removes the entry
\* and suspends in _unmap; on a destroyed client every remaining unmap
\* throws, is caught, and the loop runs to its end.
destroyLoop(s) ==
  IF s.c.snap = <<>> \/ s.destroyed
    THEN [s EXCEPT !.c.snap = <<>>, !.c.pc = "loopend"]
    ELSE unmapOpts([s EXCEPT !.c.snap = Tail(@)], "destroy", Head(s.c.snap))

\* destroy, lines 172-178: close the UPnP client and return true
destroyUpnp(s) ==
  Return([s EXCEPT !.upnpClient = NatUPNP_destroy(@)], "true")

\* destroy, lines 164-170: set the flag and close the NAT-PMP client
destroyClose(s) ==
  IF s.pmpClient # "null"
    THEN [s EXCEPT !.destroyed = TRUE, !.pmpClient = NatPMP_close(@),
                   !.c.pc = "closing"]
    ELSE destroyUpnp([s EXCEPT !.destroyed = TRUE])

destroyNext(s) ==
  LET t == destroyLoop(s)
  IN IF t.c.pc = "loopend" THEN destroyClose(t) ELSE t

\* destroy up to its first await
destroy(s) ==
  IF s.destroyed
    THEN Throw(s, "client already destroyed")
    ELSE destroyNext([s EXCEPT !.c.snap =
                        [i \in 1..Len(s.openPorts) |-> KeyOf(s.openPorts[i])]])

\* destroy after await this.unmap(openPort): whatever unmap returned or
\* raised, go on with the next open port
destroyResume_stopsOnFailure(s) ==
  LET u == unmapResume(s)
  IN IF u.done /\ u.outcome # "true"
       THEN Throw(u, "failed to unmap port")
     ELSE IF u.done
       THEN destroyNext([u EXCEPT
              !.done = FALSE, !.outcome = "none", !.error = "null"])
       ELSE u

destroyResume(s) ==
  LET u == unmapResume(s)
  IN IF u.done
       THEN destroyNext([u EXCEPT
              !.done = FALSE, !.outcome = "none", !.error = "null",
              !.c.failed = IF u.outcome = "true" THEN @
                           ELSE @ \cup {Opts(s.c)}])
       ELSE u

\* The frame of a timer callback: the opts of its closure.
Closure(s, tm) ==
  [s EXCEPT !.c = [@ EXCEPT !.kind = "map",
                     !.publicPort = tm.publicPort,
                     !.privatePort = tm.privatePort,
                     !.protocol = tm.protocol, !.cur = tm.protocol,
                     !.ttl = tm.ttl]]

upnpRenew_viaMap(s, tm) == _map(Closure(s, tm))

\* () => this._upnpMap(opts): the callback of a UPnP renewal timer, up to
\* the await of _upnpMap
upnpRenew(s, tm) ==
  IF s.destroyed
    THEN Throw(Closure(s, tm), LifecycleError)
    ELSE SendUpnp(Closure(s, tm))

\* ... and after _upnpMap returned
renewResume(s) ==
  Return(s, IF s.c.resp[1] THEN "true" ELSE "false")

\* async () => { try { await this._pmpMap.bind(this, opts) } catch {} }:
\* the callback of a NAT-PMP renewal timer awaits the bound function, which
\* is never called.
pmpRenew(s, tm) ==
  Return(Closure(s, tm), "undefined")

\* ----------------------------------------------------------------- actions
\* The frame of a public call that starts now.  alone records that no other
\* public call is in progress; pre, preUpnp and prePmp are the registry and
\* the timer tables the call found; entryDestroyed is this._destroyed as the
\* call found it.
Begin(p, op) ==
  LET alone == \A q \in Procs \ {p} : calls[q].pc = "idle"
  IN [St(p) EXCEPT !.c = [NoCall EXCEPT
        !.op = op, !.alone = alone, !.entryDestroyed = destroyed,
        !.pre = IF alone THEN openPorts ELSE <<>>,
        !.preUpnp = IF alone THEN upnpIntervals ELSE {},
        !.prePmp = IF alone THEN pmpIntervals ELSE {}]]

\* The frames of the calls in progress, once another call overlaps them.
Overlapped ==
  [q \in Procs |->
     IF calls[q].pc = "idle" THEN calls[q]
     ELSE [calls[q] EXCEPT !.alone = FALSE, !.pre = <<>>,
                           !.preUpnp = {}, !.prePmp = {}]]

\* A reply settled the request of caller p: its one-second timer stays
\* pending, with nothing left to reject.
Answered(tq, p) == [i \in 1..Len(tq) |-> IF tq[i] = p THEN 0 ELSE tq[i]]

\* The objects of a frame that ended are referenced by the registry only.
Unref(arr, p) ==
  [i \in 1..Len(arr) |->
     IF arr[i].ref = p THEN [arr[i] EXCEPT !.ref = 0] ELSE arr[i]]

Commit(s, frames) ==
  /\ Len(s.openPorts) <= MaxOpen
  /\ Len(s.pmpTimeouts) <= MaxPmpTimers
  /\ pmpClient' = s.pmpClient
  /\ upnpClient' = s.upnpClient
  /\ destroyed' = s.destroyed
  /\ upnpIntervals' = s.upnpIntervals
  /\ pmpIntervals' = s.pmpIntervals
  /\ timers' = s.timers
  /\ openPorts' = IF s.done THEN Unref(s.openPorts, s.p) ELSE s.openPorts
  /\ pmpTimeouts' = IF s.done THEN Answered(s.pmpTimeouts, s.p)
                    ELSE s.pmpTimeouts
  /\ calls' = [frames EXCEPT ![s.p] = IF s.done THEN NoCall ELSE s.c]
  /\ ret' = IF s.done
              THEN [op |-> s.c.op, outcome |-> s.outcome,
                    error |-> s.error, call |-> s.c]
              ELSE NoRet
  /\ UNCHANGED <<autoUpdate, ttl, device>>

\* A caller slot is free for the next public call.  The slots are
\* interchangeable, so the next call always takes the lowest free one.
Idle(p) ==
  /\ calls[p].pc = "idle"
  /\ \A q \in Procs : q < p => calls[q].pc # "idle"
  /\ started < MaxCalls

\* The two call shapes of the README: map(2000, 3000) for both protocols,
\* map({ publicPort, privatePort, protocol }) for one.
Arguments(pp, protocol) ==
  IF protocol = "null"
    THEN <<Num(pp[1]), Num(pp[2])>>
    ELSE <<Obj(pp[1], pp[2], protocol, undefined), Undefined>>

Map(p) ==
  /\ Idle(p)
  /\ \E pp \in PortPairs, protocol \in Protocols :
       LET a == Arguments(pp, protocol)
       IN Commit(map(Begin(p, "map"), a[1], a[2]), Overlapped)
  /\ started' = started + 1

Unmap(p) ==
  /\ Idle(p)
  /\ \E pp \in PortPairs, protocol \in Protocols :
       LET a == Arguments(pp, protocol)
       IN Commit(unmap(Begin(p, "unmap"), a[1], a[2]), Overlapped)
  /\ started' = started + 1

ExternalIp(p) ==
  /\ Idle(p)
  /\ Commit(externalIp(Begin(p, "externalIp")), Overlapped)
  /\ started' = started + 1

Destroy(p) ==
  /\ Idle(p)
  /\ Commit(destroy(Begin(p, "destroy")), Overlapped)
  /\ started' = started + 1

\* The caller of _map / _unmap resumes in the same turn of the event loop
\* in which the request settled; _map / _unmap called from there may
\* suspend again.
resume(s) ==
  IF s.done \/ s.c.pc # "ret" THEN s
  ELSE CASE s.c.op = "map" -> mapResume(s)
         [] s.c.op = "unmap" -> unmapResume(s)
         [] s.c.op = "upnpRenew" -> renewResume(s)
         [] OTHER -> destroyResume(s)

\* What a request can settle with: a reply, a failure, or (for the address
\* query, whose value is read) a reply that carries no address.
Replies(c) ==
  IF c.kind = "ip" THEN {"ok", "empty", "error"} ELSE {"ok", "error"}

\* The gateway answers the NAT-PMP request of caller p before the timer.
PmpReply(p) ==
  /\ calls[p].pc = "pmp"
  /\ \E result \in Replies(calls[p]) :
       Commit(resume(PmpSettled([St(p) EXCEPT
                                  !.pmpTimeouts = Answered(@, p)],
                                result)), calls)
  /\ UNCHANGED started

\* The oldest one-second timer fires: it closes the socket of the current
\* NAT-PMP client and rejects its promise, which fails the request that is
\* still racing against it.  The timer of a request that was answered is
\* not cleared and fires as well; ret then names the timer callback, with
\* the state it found the socket in as its outcome.
PmpTimeout ==
  /\ pmpTimeouts # <<>>
  /\ LET p == Head(pmpTimeouts)
     IN IF p # 0
          THEN Commit(resume(PmpSettled([St(p) EXCEPT
                                           !.pmpClient = NatPMP_close(@),
                                           !.pmpTimeouts = Tail(@)],
                                        "timeout")), calls)
          ELSE /\ pmpClient' = NatPMP_close(pmpClient)
               /\ pmpTimeouts' = Tail(pmpTimeouts)
               /\ ret' = [NoRet EXCEPT !.op = "pmpTimeout",
                                       !.outcome = pmpClient]
               /\ UNCHANGED <<upnpClient, autoUpdate, destroyed, openPorts,
                              upnpIntervals, pmpIntervals, calls, ttl,
                              timers, device>>
  /\ UNCHANGED started

\* The gateway answers the UPnP request of caller p.
UpnpReply(p) ==
  /\ calls[p].pc = "upnp"
  /\ \E result \in Replies(calls[p]) :
       Commit(resume(UpnpSettled(St(p), result)), calls)
  /\ UNCHANGED started

MapResume(p) ==
  /\ calls[p].pc = "ret" /\ calls[p].op = "map"
  /\ Commit(mapResume(St(p)), calls)
  /\ UNCHANGED started

UnmapResume(p) ==
  /\ calls[p].pc = "ret" /\ calls[p].op = "unmap"
  /\ Commit(unmapResume(St(p)), calls)
  /\ UNCHANGED started

DestroyResume(p) ==
  /\ calls[p].pc = "ret" /\ calls[p].op = "destroy"
  /\ Commit(destroyResume(St(p)), calls)
  /\ UNCHANGED started

\* destroy after await this._pmpClient.close()
DestroyClosed(p) ==
  /\ calls[p].pc = "closing"
  /\ Commit(destroyUpnp(St(p)), calls)
  /\ UNCHANGED started

Next ==
  \/ \E p \in Procs : Map(p)
  \/ \E p \in Procs : Unmap(p)
  \/ \E p \in Procs : ExternalIp(p)
  \/ \E p \in Procs : Destroy(p)
  \/ \E p \in Procs : PmpReply(p)
  \/ PmpTimeout
  \/ \E p \in Procs : UpnpReply(p)
  \/ \E p \in Procs : MapResume(p)
  \/ \E p \in Procs : UnmapResume(p)
  \/ \E p \in Procs : DestroyResume(p)
  \/ \E p \in Procs : DestroyClosed(p)

Spec == Init /\ [][Next]_vars

\* ------------------------------------------- options, leases and renewals
\* The same client driven with the constructor's ttl option, with every
\* argument shape of map and unmap, and with its renewal timers firing.
ConstructorTtls == {undefined, 60}

MapArguments ==
  {<<Num(2000), Num(3000)>>,
   <<Obj(2000, 3000, "TCP", undefined), Undefined>>,
   <<Obj(2000, 3000, "TCP", 60), Undefined>>,
   <<Obj(2000, 3000, "UDP", 1800), Undefined>>,
   <<Num(70000), Undefined>>,
   <<Obj(undefined, undefined, "UDP", undefined), Undefined>>,
   <<Obj(2000, 3000, "ICMP", undefined), Undefined>>,
   <<Str("2000"), Num(3000)>>,
   <<Undefined, Undefined>>,
   <<Null, Undefined>>}

UnmapArguments ==
  {<<Num(2000), Num(3000)>>,
   <<Obj(2000, 3000, "TCP", undefined), Undefined>>,
   <<Num(70000), Undefined>>,
   <<Undefined, Undefined>>}

InitLease == \E optsTtl \in ConstructorTtls : Constructed(optsTtl, FALSE)

\* The caller awaits each call before it makes the next one; only the
\* timers run in between.
Awaited == \A q \in Procs : calls[q].op \notin {"map", "unmap"}

MapWith(p) ==
  /\ Idle(p) /\ Awaited
  /\ \E a \in MapArguments :
       Commit(map(Begin(p, "map"), a[1], a[2]), Overlapped)
  /\ started' = started + 1

UnmapWith(p) ==
  /\ Idle(p) /\ Awaited
  /\ \E a \in UnmapArguments :
       Commit(unmap(Begin(p, "unmap"), a[1], a[2]), Overlapped)
  /\ started' = started + 1

\* A running renewal timer fires.
UpnpRenew(p) ==
  /\ Idle(p)
  /\ \E tm \in timers :
       /\ tm.via = "upnp"
       /\ Commit(upnpRenew(Begin(p, "upnpRenew"), tm), Overlapped)
  /\ started' = started + 1

PmpRenew(p) ==
  /\ Idle(p)
  /\ \E tm \in timers :
       /\ tm.via = "pmp"
       /\ Commit(pmpRenew(Begin(p, "pmpRenew"), tm), Overlapped)
  /\ started' = started + 1

NextLease ==
  \/ \E p \in Procs : MapWith(p)
  \/ \E p \in Procs : UnmapWith(p)
  \/ \E p \in Procs : UpnpRenew(p)
  \/ \E p \in Procs : PmpRenew(p)
  \/ \E p \in Procs : PmpReply(p)
  \/ PmpTimeout
  \/ \E p \in Procs : UpnpReply(p)
  \/ \E p \in Procs : MapResume(p)
  \/ \E p \in Procs : UnmapResume(p)

SpecLease == InitLease /\ [][NextLease]_vars

\* ------------------------------------------------- the UPnP control point
\* Device.run on its own: the actions the UPnP client runs on the device,
\* with the argument lists it passes (the lease duration comes last in an
\* AddPortMapping), and the gateway's answers.
Runs ==
  {<<"AddPortMapping", <<<<"NewExternalPort", 2000>>,
                         <<"NewInternalPort", 3000>>,
                         <<"NewLeaseDuration", lease>>>>>> :
     lease \in {0, 1200, 7200}}
  \cup {<<"DeletePortMapping", <<<<"NewExternalPort", 2000>>>>>>,
        <<"GetExternalIPAddress", <<>>>>}

InitDevice ==
  /\ \E upnpPermanentFallback \in BOOLEAN :
       Constructed(undefined, upnpPermanentFallback)
  /\ pmpClient = "null"
  /\ upnpClient # "null"
  /\ autoUpdate

NatAPIVars ==
  <<pmpClient, upnpClient, autoUpdate, destroyed, openPorts, upnpIntervals,
    pmpIntervals, pmpTimeouts, calls, started, ret, ttl, timers>>

DeviceRun ==
  /\ device.pc = "idle" /\ device.outcome = "none"
  /\ \E r \in Runs :
       device' = run([device EXCEPT !.posts = <<>>], r[1], r[2])
  /\ UNCHANGED NatAPIVars

\* The device description was fetched (or not); the action is POSTed.
DeviceFetch ==
  /\ device.pc = "service"
  /\ Len(device.posts) < MaxPosts
  /\ \E info \in Descriptions :
       LET service == _getService(info)
       IN device' = fetch([device EXCEPT !.info = info, !.service = service],
                          service # NoService)
  /\ UNCHANGED NatAPIVars

\* The gateway answers the POST.
DeviceRespond ==
  /\ device.pc = "post"
  /\ \/ device' = respond(device, 200, "none", 0)
     \/ device' = respond(device, 404, "none", 0)
     \/ device' = respond(device, 500, "servererror", 0)
     \/ \E errorCode \in FaultCodes \cup {501} :
          device' = respond(device, 500, "upnperror", errorCode)
  /\ UNCHANGED NatAPIVars

NextDevice ==
  \/ DeviceRun
  \/ DeviceFetch
  \/ DeviceRespond

SpecDevice == InitDevice /\ [][NextDevice]_vars

TypeOK ==
  /\ pmpClient \in {"null", "open", "closed"}
  /\ upnpClient \in {"null", "open", "destroyed"}
  /\ destroyed \in BOOLEAN
  /\ Len(openPorts) <= MaxOpen
  /\ Len(pmpTimeouts) <= MaxPmpTimers
  /\ started \in 0..MaxCalls

\* ================================================================== claims
Returned(op) == ret.op = op
Failed(a) == a.result \in {"error", "timeout"}
HasClient == pmpClient # "null" \/ upnpClient # "null"
KeysOf(arr) == {KeyOf(arr[i]) : i \in 1..Len(arr)}
Registered(key) == \E i \in 1..Len(openPorts) : KeyOf(openPorts[i]) = key

\* C1: a map, unmap or externalIp call made on a destroyed client raises
\* 'client is destroyed' and has sent no NAT-PMP or UPnP request.
C1_DestroyedFailsFast ==
  (ret.op \in {"map", "unmap", "externalIp"} /\ ret.call.entryDestroyed)
    => /\ ret.outcome = "raised"
       /\ ret.error = LifecycleError
       /\ ret.call.tried = <<>>

C1_Witness ==
  /\ ret.op \in {"map", "unmap", "externalIp"}
  /\ ret.call.entryDestroyed
  /\ HasClient

\* C2: a destroy that no other call overlaps returns true whatever unmaps
\* failed: every mapping of its snapshot had its unmap sent to the gateway
\* and is out of the registry, and both protocol clients are closed.
C2_DestroyIsolatesFailures ==
  (Returned("destroy") /\ ret.call.alone /\ ~ret.call.entryDestroyed)
    => /\ ret.outcome = "true"
       /\ openPorts = <<>>
       /\ HasClient => KeysOf(ret.call.pre) \subseteq ret.call.attempted
       /\ pmpClient \in {"null", "closed"}
       /\ upnpClient \in {"null", "destroyed"}

C2_Witness ==
  /\ Returned("destroy") /\ ret.call.alone
  /\ Len(ret.call.pre) = 3
  /\ ret.call.failed # {}
  /\ ret.call.failed # KeysOf(ret.call.pre)

\* C3: when destroy returns, no renewal timer is left in the NAT-PMP or
\* the UPnP timer table, also when an unmap of the teardown failed; stated
\* for a destroy that no other call overlaps.
C3_NoTimerAfterDestroy ==
  (Returned("destroy") /\ ret.call.alone /\ ~ret.call.entryDestroyed)
    => (upnpIntervals = {} /\ pmpIntervals = {})

\* C4: when destroy returns, the registry of open mappings is empty, for
\* every interleaving with the map and unmap calls made before the client
\* was destroyed.
C4_RegistryEmptyAfterDestroy ==
  (Returned("destroy") /\ ~ret.call.entryDestroyed) => openPorts = <<>>

\* The frames of the map and unmap calls, running or just returned
\* (destroy runs unmap for every open port of its snapshot).
Frames ==
  {calls[p] : p \in Procs} \cup {ret.call}

MapUnmapFrames == {c \in Frames : c.kind \in {"map", "unmap"}}

\* NAT-PMP goes first, and a UPnP request follows a failed NAT-PMP request
\* for the same protocol only.
PmpBeforeUpnp(c) ==
  \A i \in 1..Len(c.tried) :
    IF c.tried[i].via = "upnp"
      THEN /\ i > 1
           /\ c.tried[i - 1].via = "pmp"
           /\ c.tried[i - 1].protocol = c.tried[i].protocol
           /\ Failed(c.tried[i - 1])
      ELSE i = 1 \/ c.tried[i - 1].protocol # c.tried[i].protocol

\* The NAT-PMP requests that failed with no UPnP request after them
NoFallback(c) ==
  {i \in 1..Len(c.tried) :
     /\ c.tried[i].via = "pmp" /\ Failed(c.tried[i])
     /\ ~(i < Len(c.tried) /\ c.tried[i + 1].via = "upnp")}

\* C5 as claimed: with both clients constructed, NAT-PMP is attempted
\* before UPnP and UPnP is attempted if and only if NAT-PMP failed.
C5_FallbackIff ==
  (pmpClient # "null" /\ upnpClient # "null")
    => \A c \in MapUnmapFrames : PmpBeforeUpnp(c) /\ NoFallback(c) = {}

\* C5 amended: with both clients constructed, NAT-PMP is attempted before
\* UPnP, UPnP is attempted only if NAT-PMP failed, and a failed NAT-PMP
\* attempt is followed by the UPnP attempt unless the client was destroyed
\* in the meantime, in which case the call fails with the lifecycle error.
C5_FallbackUnlessDestroyed ==
  (pmpClient # "null" /\ upnpClient # "null")
    => \A c \in MapUnmapFrames :
         /\ PmpBeforeUpnp(c)
         /\ NoFallback(c) # {}
              => (destroyed /\ c.resp = <<FALSE, LifecycleError>>)

C5_Witness ==
  /\ Returned("map")
  /\ Len(ret.call.tried) = 2
  /\ ret.call.tried[1].via = "pmp" /\ ret.call.tried[1].result = "timeout"
  /\ ret.call.tried[2].via = "upnp" /\ ret.call.tried[2].result = "ok"

\* Every enabled protocol was tried for the last protocol of the call, and
\* failed.
Exhausted(c) ==
  /\ pmpClient # "null" =>
       \E i \in 1..Len(c.tried) :
         /\ c.tried[i].protocol = c.cur /\ c.tried[i].via = "pmp"
         /\ Failed(c.tried[i])
  /\ upnpClient # "null" =>
       \E i \in 1..Len(c.tried) :
         /\ c.tried[i].protocol = c.cur /\ c.tried[i].via = "upnp"
         /\ Failed(c.tried[i])

\* C6: whichever protocols are enabled, a map or unmap call in which every
\* enabled protocol failed returns false with 'no protocols succeeded' as
\* its error, and map and unmap raise nothing but a lifecycle or a
\* validation error.
C6_ExhaustionOnly ==
  ret.op \in {"map", "unmap"}
    => /\ ret.outcome \in {"true", "false", "raised"}
       /\ ret.outcome = "raised"
            => ret.error \in {LifecycleError, "protocol is invalid"}
       /\ (~ret.call.entryDestroyed /\ Exhausted(ret.call))
            => (ret.outcome = "false" /\ ret.error = ExhaustionError)

C6_Witness ==
  /\ ret.op \in {"map", "unmap"}
  /\ pmpClient # "null" /\ upnpClient # "null"
  /\ Exhausted(ret.call)
  /\ ret.call.tried[1].result = "timeout"

RetKey(proto) == Key(ret.call.publicPort, ret.call.privatePort, proto)

\* The sub-mapping of the returned call for proto succeeded / failed at
\* the gateway.
SubOk(proto) ==
  \E i \in 1..Len(ret.call.tried) :
    ret.call.tried[i].protocol = proto /\ ret.call.tried[i].result = "ok"

SubTried(proto) ==
  \E i \in 1..Len(ret.call.tried) : ret.call.tried[i].protocol = proto

\* C7: a map call with protocol unspecified, overlapped by no other call,
\* in which the UDP and the TCP sub-mapping both succeed returns true and
\* has added exactly two registry entries for its port pair: UDP, then TCP.
C7_BothAddsTwo ==
  (Returned("map") /\ ret.call.protocol = "null" /\ ret.call.alone
     /\ SubOk("UDP") /\ SubOk("TCP"))
    => /\ ret.outcome = "true"
       /\ openPorts = ret.call.pre \o <<Entry(RetKey("UDP"), 0),
                                        Entry(RetKey("TCP"), 0)>>

C7_Witness ==
  /\ Returned("map") /\ ret.call.protocol = "null" /\ ret.call.alone
  /\ SubOk("UDP") /\ SubOk("TCP")
  /\ ret.call.pre # <<>>

\* C8: in a map call with protocol unspecified no UDP request follows a TCP
\* request; when UDP fails, TCP is not attempted and the call returns
\* false; when UDP succeeds and TCP fails, the call returns false and (in a
\* call no other call overlaps) the registry has gained the UDP entry.
C8_UdpThenTcp ==
  (Returned("map") /\ ret.call.protocol = "null" /\ ~ret.call.entryDestroyed)
    => /\ \A i, j \in 1..Len(ret.call.tried) :
            (i < j /\ ret.call.tried[i].protocol = "TCP")
              => ret.call.tried[j].protocol = "TCP"
       /\ ~SubOk("UDP") => (~SubTried("TCP") /\ ret.outcome = "false")
       /\ (SubOk("UDP") /\ SubTried("TCP") /\ ~SubOk("TCP"))
            => /\ ret.outcome = "false"
               /\ ret.call.alone =>
                    openPorts = Append(ret.call.pre, Entry(RetKey("UDP"), 0))

C8_Witness ==
  /\ Returned("map") /\ ret.call.protocol = "null" /\ ret.call.alone
  /\ SubOk("UDP") /\ SubTried("TCP") /\ ~SubOk("TCP")
  /\ ret.call.pre # <<>>

\* C9: a single-protocol map call, overlapped by no other call, that
\* returns false leaves the registry and both timer tables as it found
\* them.
C9_FailedMapNoTrace ==
  (Returned("map") /\ ret.call.protocol # "null" /\ ret.call.alone
     /\ ret.outcome = "false")
    => /\ openPorts = ret.call.pre
       /\ upnpIntervals = ret.call.preUpnp
       /\ pmpIntervals = ret.call.prePmp

C9_Witness ==
  /\ Returned("map") /\ ret.call.protocol # "null" /\ ret.call.alone
  /\ ret.outcome = "false"
  /\ ret.call.pre # <<>>
  /\ Len(ret.call.tried) = 2

\* C10: when a single-protocol map call returns true, the registry holds
\* an entry for its (publicPort, privatePort, protocol), whatever unmap and
\* destroy calls ran concurrently.
C10_SuccessIsRegistered ==
  (Returned("map") /\ ret.call.protocol # "null" /\ ret.outcome = "true")
    => Registered(RetKey(ret.call.protocol))

\* The unmap call that returned, made on a live client with no other call
\* in progress, and the key it was given.
UnmapAlone ==
  Returned("unmap") /\ ret.call.alone /\ ret.call.kind = "unmap"

UnmapKey == RetKey(ret.call.protocol)

\* C11: an unmap for a key that has no registry entry leaves the registry
\* unchanged and does not raise, and the registry an unmap leaves is one
\* that a second unmap of the same key leaves as it is.
C11_UnmapIdempotent ==
  UnmapAlone
    => /\ ret.outcome # "raised"
       /\ findIndex(ret.call.pre, UnmapKey) = 0 => openPorts = ret.call.pre
       /\ arrayRemove(openPorts, findIndex(openPorts, UnmapKey)) = openPorts

\* C12: an unmap call that no other call overlaps has removed the first
\* matching registry entry as soon as it is suspended on its first protocol
\* request, and the registry stays as that removal left it until the call
\* returns, whether its requests succeed, fail or time out.
C12_OptimisticRemoval ==
  \A c \in Frames :
    (c.op = "unmap" /\ c.kind = "unmap" /\ c.alone)
      => openPorts =
           arrayRemove(c.pre, findIndex(c.pre, Key(c.publicPort,
                                                   c.privatePort, c.protocol)))

C12_Witness ==
  /\ UnmapAlone
  /\ findIndex(ret.call.pre, UnmapKey) # 0
  /\ ret.outcome = "false"
  /\ \E i \in 1..Len(ret.call.tried) : ret.call.tried[i].result = "timeout"

\* C13: after map with protocol unspecified has put the UDP and the TCP
\* entry of a port pair into the registry, an unmap of the pair with
\* protocol unspecified leaves no entry of the pair in the registry.
C13_WildcardRemovesAll ==
  (UnmapAlone /\ ret.call.protocol = "null"
     /\ ret.call.pre = <<Entry(RetKey("UDP"), 0), Entry(RetKey("TCP"), 0)>>)
    => \A i \in 1..Len(openPorts) : ~Matches(openPorts[i], UnmapKey)

\* C14: an unmap call with protocol unspecified sends the protocol-level
\* unmap for UDP and for TCP, the one for TCP also when the one for UDP
\* failed.
C14_UnmapBothAlways ==
  (UnmapAlone /\ ret.call.protocol = "null" /\ HasClient)
    => (SubTried("UDP") /\ SubTried("TCP"))

\* C15: an externalIp call made on a live client returns an address or the
\* empty string and never raises; it asks NAT-PMP first when there is a
\* NAT-PMP client, asks UPnP only after NAT-PMP failed, timed out or
\* returned nothing, does ask UPnP then as long as the client is not
\* destroyed, and returns the empty string when no request produced an
\* address.
C15_ExternalIpNeverRaises ==
  (Returned("externalIp") /\ ~ret.call.entryDestroyed)
    => LET t == ret.call.tried
       IN /\ ret.outcome \in {"ip", ""}
          /\ pmpClient # "null" => (t # <<>> /\ t[1].via = "pmp")
          /\ \A i \in 1..Len(t) :
               /\ i > 1 => (t[i].via = "upnp" /\ t[i - 1].via = "pmp"
                              /\ t[i - 1].result # "ok")
               /\ i < Len(t) => t[i].result # "ok"
          /\ (~destroyed /\ upnpClient # "null" /\ t # <<>>
                /\ t[Len(t)].result # "ok") => t[Len(t)].via = "upnp"
          /\ (upnpClient # "null" /\ pmpClient = "null") => t # <<>>
          /\ ret.outcome = "ip"
               <=> (t # <<>> /\ t[Len(t)].result = "ok")

C15_Witness ==
  /\ Returned("externalIp")
  /\ Len(ret.call.tried) = 2
  /\ ret.call.tried[1].result = "empty"
  /\ ret.call.tried[2].result = "error"
  /\ ret.outcome = ""

\* The 16-bit port range
PortRange == 0..65535

\* C16: a map or unmap request that got past validation has its public and
\* its private port in the 16-bit port range and TCP, UDP or no protocol:
\* every other request was refused before the registry was touched and
\* before any request was sent.
C16_InvalidRejected ==
  \A c \in Frames :
    (c.op \in {"map", "unmap"} /\ c.kind # "none")
      => /\ c.publicPort \in PortRange
         /\ c.privatePort \in PortRange
         /\ c.protocol \in {"null", "TCP", "UDP"}

\* The callback of a renewal timer that ran to its end in the last step.
Renewed == ret.op \in {"upnpRenew", "pmpRenew"}

\* C17: a renewal timer that fires sends the add-mapping request of its
\* mapping again (same ports, protocol and ttl), once, through the protocol
\* that set the timer: UPnP for a UPnP timer, NAT-PMP for a NAT-PMP timer.
C17_RenewalReissues ==
  Renewed
    => LET t == ret.call.tried
       IN /\ Len(t) = 1
          /\ t[1].via = (IF ret.op = "upnpRenew" THEN "upnp" ELSE "pmp")
          /\ t[1].publicPort = ret.call.publicPort
          /\ t[1].privatePort = ret.call.privatePort
          /\ t[1].protocol = ret.call.protocol
          /\ t[1].ttl = ret.call.ttl

\* C18: every running renewal timer has the period (ttl - 600) seconds of
\* the ttl its own mapping was requested with, so it first fires before
\* that lease has run out.
C18_RenewalFromOwnTtl ==
  \A tm \in timers :
    /\ tm.period = (tm.ttl - RenewMargin) * 1000
    /\ tm.period < tm.ttl * 1000

\* C19: the client's ttl is at least 1200 seconds and its renewal period at
\* least 600 seconds whatever ttl the constructor was given, and every
\* add-mapping request sent carries a ttl of at least 1200 seconds
\* whatever ttl the call was given.
C19_TtlFloor ==
  /\ ttl >= MinTtl
  /\ _timeout >= RenewMargin * 1000
  /\ \A c \in Frames :
       c.kind = "map"
         => \A i \in 1..Len(c.tried) : c.tried[i].ttl >= MinTtl

\* C20: with the permanent-lease fallback enabled, a run POSTs to the
\* control URL at most twice: once as called and, after fault 725, once
\* more with lease duration 0; a second fault 725 is not followed by a
\* third POST.
C20_ResubmitsOnce ==
  device.permanentFallback => Len(device.posts) <= 2

\* C21: with the permanent-lease fallback disabled (the default), a run
\* whose POST was answered with fault 725 fails: it POSTs once, and no
\* argument list with lease duration 0 is sent in place of the one it was
\* called with.
C21_NoResubmitWhenDisabled ==
  ~device.permanentFallback
    => \A i \in 2..Len(device.posts) :
         device.posts[i] # PermanentLease(device.posts[i - 1])

\* The keys under which the two timer tables hold a renewal timer.
Scheduled(upnpTable, pmpTable) ==
  {Key(k[1], k[2], k[3]) : k \in upnpTable \cup pmpTable}

\* C22: an unmap call that no other call overlaps, made when every key
\* with a renewal timer had a registry entry, returns with every key
\* that has a renewal timer still having a registry entry, also when its
\* protocol requests failed.
C22_TimerOnlyForEntry ==
  (UnmapAlone
     /\ Scheduled(ret.call.preUpnp, ret.call.prePmp) \subseteq KeysOf(ret.call.pre))
    => Scheduled(upnpIntervals, pmpIntervals) \subseteq KeysOf(openPorts)

\* C23: a renewal callback that runs while no call is in progress sends
\* its add-mapping request only for a key that has a registry entry: the
\* timer of an entry that unmap or destroy removed sends nothing.
C23_NoRenewAfterRemove ==
  \A c \in Frames :
    (c.op \in {"upnpRenew", "pmpRenew"} /\ c.alone /\ c.tried # <<>>)
      => Key(c.publicPort, c.privatePort, c.protocol) \in KeysOf(c.pre)

\* C24: a renewal callback sends at most one request, through the
\* protocol of its own timer table, and returns after that request
\* settled: a failed renewal tries no other protocol.
C24_RenewalNoFallback ==
  \A c \in Frames :
    c.op \in {"upnpRenew", "pmpRenew"}
      => /\ Len(c.tried) <= 1
         /\ \A i \in 1..Len(c.tried) :
              c.tried[i].via = (IF c.op = "upnpRenew" THEN "upnp" ELSE "pmp")

C24_Witness ==
  /\ Returned("upnpRenew")
  /\ ret.outcome = "false"
  /\ pmpClient # "null"
  /\ Len(ret.call.tried) = 1
  /\ ret.call.tried[1].result = "error"

\* C25: while a map call for one protocol, which no other call overlaps,
\* is waiting for the gateway with no request of its own answered yet, the
\* registry is the one the call found: the entry for its key is added only
\* after its add-mapping request succeeded.
C25_EntryAfterSuccess ==
  \A p \in Procs :
    LET c == calls[p]
    IN (/\ c.op = "map" /\ c.alone /\ c.protocol # "null"
        /\ c.pc \in {"pmp", "upnp"}
        /\ \A i \in 1..Len(c.tried) : c.tried[i].result # "ok")
         => openPorts = c.pre

\* A registry with one entry per key, each for TCP or UDP.
UniqueKeys(arr) ==
  /\ \A i, j \in 1..Len(arr) : i # j => KeyOf(arr[i]) # KeyOf(arr[j])
  /\ \A i \in 1..Len(arr) : arr[i].protocol \in {"TCP", "UDP"}

\* C26: a map call that no other call overlaps, made on a registry with
\* one entry per key and only TCP and UDP entries, leaves such a
\* registry, also when its key was mapped before.
C26_OneEntryPerKey ==
  (Returned("map") /\ ret.call.alone /\ UniqueKeys(ret.call.pre))
    => UniqueKeys(openPorts)

\* The NAT-PMP requests of a map or unmap frame that timed out, by their
\* position in the frame's requests.
TimedOut(c) ==
  {i \in 1..Len(c.tried) :
     c.tried[i].via = "pmp" /\ c.tried[i].result = "timeout"}

\* The request after the i-th is the UPnP request for the same protocol,
\* sent with the NAT-PMP socket closed.
UpnpFollows(c, i) ==
  /\ c.tried[i + 1].via = "upnp"
  /\ c.tried[i + 1].protocol = c.tried[i].protocol
  /\ c.tried[i + 1].socket = "closed"

\* C27 as claimed: a NAT-PMP map or unmap request that timed out is
\* followed, when a UPnP client exists, by the UPnP request for the same
\* protocol, sent after the socket was closed; without a UPnP client the
\* call ends with the socket closed.
C27_TimeoutThenUpnp ==
  \A c \in MapUnmapFrames :
    \A i \in TimedOut(c) :
      IF i < Len(c.tried)
        THEN UpnpFollows(c, i)
        ELSE pmpClient = "closed" /\ upnpClient = "null"

\* C27 amended: ... unless the client was destroyed while the NAT-PMP
\* request was pending; then the call fails with the lifecycle error, the
\* socket closed and no UPnP request sent.
C27_TimeoutThenUpnpUnlessDestroyed ==
  \A c \in MapUnmapFrames :
    \A i \in TimedOut(c) :
      IF i < Len(c.tried)
        THEN UpnpFollows(c, i)
        ELSE /\ pmpClient = "closed"
             /\ upnpClient # "null"
                  => (destroyed /\ c.resp = <<FALSE, LifecycleError>>)

C27_Witness ==
  /\ Returned("unmap")
  /\ ret.outcome = "true"
  /\ Len(ret.call.tried) = 2
  /\ 1 \in TimedOut(ret.call)
  /\ UpnpFollows(ret.call, 1)
  /\ ret.call.tried[2].result = "ok"

\* C28: the one-second timer of a NAT-PMP request that was answered
\* before it fired does not close the socket: when it fires on an open
\* socket, the socket is open afterwards.
C28_AnsweredTimerHarmless ==
  (Returned("pmpTimeout") /\ ret.outcome = "open") => pmpClient = "open"

\* C29: every NAT-PMP request of a map, an unmap, an externalIp or a
\* destroy call was sent on an open socket.
C29_SentOnOpenSocket ==
  \A c \in Frames :
    \A i \in 1..Len(c.tried) :
      c.tried[i].via = "pmp" => c.tried[i].socket = "open"

\* C30: at most one call at a time is suspended on a NAT-PMP request,
\* however map, unmap, externalIp and destroy calls interleave.
C30_OneRequestInFlight ==
  Cardinality({p \in Procs : calls[p].pc = "pmp"}) <= 1

\* The place of a service type in the priority order, 0 for a type that
\* is not accepted.
Priority(serviceType) ==
  IF \E i \in 1..Len(services) : services[i] = serviceType
    THEN CHOOSE i \in 1..Len(services) : services[i] = serviceType
    ELSE 0

\* C31: the service a run resolved is of the first type, in the order
\* WANIPConnection:1, WANIPConnection:2, WANPPPConnection:1, of which the
\* description it fetched has a service with a control URL and an SCPD
\* URL, wherever that service stands in the document.
C31_ServicePriority ==
  device.service # NoService
    => LET all == _parseDescription(device.info)
       IN \A i \in 1..Len(all) :
            (Accepted(all[i]) /\ all[i].controlURL # ""
               /\ all[i].SCPDURL # "")
              => Priority(device.service.serviceType)
                   <= Priority(all[i].serviceType)

\* C32: no two renewal timers are running for the same key: neither a
\* renewal that fired nor a second map of a mapped key leaves an earlier
\* timer of the key running next to the new one.
C32_OneTimerPerKey ==
  \A tm, other \in timers :
    IntervalKey(tm) = IntervalKey(other) => tm = other

\* C33: when an unmap call that no other call overlaps returns, no timer
\* table holds a renewal timer for a key whose delete request succeeded,
\* whichever protocol opened the mapping and whichever sent the delete.
C33_UnmapClearsBothTables ==
  UnmapAlone
    => \A i \in 1..Len(ret.call.tried) :
         ret.call.tried[i].result = "ok"
           => KeyOf(ret.call.tried[i])
                \notin Scheduled(upnpIntervals, pmpIntervals)

\* C34: when the one-second timer of a request that has completed fires
\* while a later NAT-PMP request is pending on an open socket, the socket
\* is still open afterwards.
C34_TimerOnlyOwnRequest ==
  (/\ Returned("pmpTimeout") /\ ret.outcome = "open"
   /\ \E p \in Procs : calls[p].pc = "pmp")
    => pmpClient = "open"

====
